---- MODULE Spec2Model ----
(***************************************************************************)
(* Model of main.py: ear-clipping triangulation (ear_clip), greedy convex  *)
(* merging (merge_convex, unique_points) and the lawnmower coverage path   *)
(* (MainWindow.compute_lawnmower, MainWindow.generate_paths).              *)
(*                                                                         *)
(* Points are records [x, y] with integer coordinates (scene units).  On   *)
(* integers the source's tolerance tests |d| < 1e-6 hold exactly when      *)
(* d = 0, and QPointF's == is equality of the coordinates.                 *)
(***************************************************************************)
EXTENDS Integers, Sequences, FiniteSets, TLC

VARIABLES
    pc,          \* position of the running call
    vertices,    \* ear_clip: the argument
    V,           \* ear_clip: working vertex list
    result,      \* ear_clip: triangles emitted so far / returned list
    iterations,  \* ear_clip: while-loop counter
    input,       \* merge_convex: the list handed to the first call
    polygons,    \* merge_convex: working list / returned list
    merged,      \* merge_convex: flag of the while loop
    iteration,   \* merge_convex: pass counter
    ncall,       \* which call of merge_convex is running (1 or 2)
    first,       \* what the first call of merge_convex returned
    current,        \* MainWindow.current: the points being drawn
    last_closed,    \* MainWindow.last_closed: the last closed polygon
    convex_pieces,  \* MainWindow.convex_pieces
    spacing,        \* the value of MainWindow.spacing_spin
    path_lines,     \* the scene's items marked isPathLine, in the order added
    piece_idx,      \* generate_paths: position of the for loop of line 358
    stripes         \* generate_paths: what compute_lawnmower returned last

earVars == <<V, result, iterations>>
mergeVars == <<input, polygons, merged, iteration, ncall, first>>
uiVars == <<current, last_closed, convex_pieces, spacing, path_lines, piece_idx,
            stripes>>
vars == <<pc, vertices, earVars, mergeVars, uiVars>>

(***************************************************************************)
(* Bounds of the model.                                                    *)
(***************************************************************************)
NPoints == 9          \* ear_clip inputs use the first NPoints points of GridPoints
MaxVerts == 5         \* ear_clip inputs have at most MaxVerts vertices
RawPoints == 7        \* free merge_convex inputs use the first RawPoints points

Abs(n) == IF n < 0 THEN -n ELSE n
Sign(n) == IF n > 0 THEN 1 ELSE IF n < 0 THEN -1 ELSE 0
Min2(a, b) == IF a <= b THEN a ELSE b
Max2(a, b) == IF a >= b THEN a ELSE b

Pt(px, py) == [x |-> px, y |-> py]

\* the lattice points inputs are drawn from: the 3 x 3 block first, then
\* the rest of the 4 x 4 block
GridPoints ==
    << Pt(0, 0), Pt(1, 0), Pt(2, 0), Pt(0, 1), Pt(1, 1), Pt(2, 1),
       Pt(0, 2), Pt(1, 2), Pt(2, 2), Pt(3, 0), Pt(3, 1), Pt(3, 2),
       Pt(0, 3), Pt(1, 3), Pt(2, 3), Pt(3, 3) >>

Grid(k) == {GridPoints[i] : i \in 1..Min2(k, Len(GridPoints))}

RECURSIVE SumTo(_, _)
SumTo(f, n) == IF n = 0 THEN 0 ELSE f[n] + SumTo(f, n - 1)

Reverse(s) == [i \in 1..Len(s) |-> s[Len(s) + 1 - i]]

\* the window as MainWindow.__init__ leaves it (lines 258-260, 333-335)
UiIdle ==
    /\ current = <<>>
    /\ last_closed = <<>>
    /\ convex_pieces = <<>>
    /\ spacing = 20
    /\ path_lines = <<>>
    /\ piece_idx = 0
    /\ stripes = <<>>

(***************************************************************************)
(* _area2: twice the signed area of triangle abc.                          *)
(***************************************************************************)
_area2(a, b, c) == (b.x - a.x) * (c.y - a.y) - (b.y - a.y) * (c.x - a.x)

(***************************************************************************)
(* ear_clip                                                                *)
(***************************************************************************)
\* the shoelace sum of lines 26-28
area_sum(pts) ==
    LET n == Len(pts)
        term == [i \in 1..n |-> pts[i].x * pts[(i % n) + 1].y
                                - pts[(i % n) + 1].x * pts[i].y]
    IN  SumTo(term, n)

\* lines 24-30: copy, reversed when the shoelace sum is negative
ensure_ccw(pts) == IF area_sum(pts) < 0 THEN Reverse(pts) ELSE pts

is_convex(a, b, c) == _area2(a, b, c) > 0

point_in_tri(p, a, b, c) ==
    LET A  == Abs(_area2(a, b, c))
        A1 == Abs(_area2(p, b, c))
        A2 == Abs(_area2(a, p, c))
        A3 == Abs(_area2(a, b, p))
    IN  Abs((A1 + A2 + A3) - A) = 0

\* V[i - 1] with Python's wrap-around at i = 0, V[i], V[(i + 1) % len(V)]
PrevOf(W, i) == W[IF i = 1 THEN Len(W) ELSE i - 1]
NextOf(W, i) == W[(i % Len(W)) + 1]

\* mutant: the containment scan of lines 56-60 is left out
is_ear_unchecked(W, i) == is_convex(PrevOf(W, i), W[i], NextOf(W, i))

\* lines 52-62: the body of the for loop decides whether V[i] is an ear
is_ear(W, i) ==
    LET prev == PrevOf(W, i)
        curr == W[i]
        nxt  == NextOf(W, i)
    IN  /\ is_convex(prev, curr, nxt)
        /\ \A k \in 1..Len(W) :
              ~ (W[k] \notin {prev, curr, nxt} /\ point_in_tri(W[k], prev, curr, nxt))

\* lines 50-68: index of the first ear in scan order, 0 when the for loop
\* runs to its else branch
RECURSIVE FirstEarFrom(_, _)
FirstEarFrom(W, i) ==
    IF i > Len(W) THEN 0
    ELSE IF is_ear(W, i) THEN i
    ELSE FirstEarFrom(W, i + 1)

FirstEar(W) == FirstEarFrom(W, 1)

\* list.remove(x): drops the first element equal to x
RECURSIVE IndexOfFrom(_, _, _)
IndexOfFrom(s, e, i) ==
    IF i > Len(s) THEN 0
    ELSE IF s[i] = e THEN i
    ELSE IndexOfFrom(s, e, i + 1)

ListRemove(s, e) ==
    LET k == IndexOfFrom(s, e, 1)
    IN  IF k = 0 THEN s
        ELSE [i \in 1..(Len(s) - 1) |-> IF i < k THEN s[i] ELSE s[i + 1]]

EarTriangle(W, i) == <<PrevOf(W, i), W[i], NextOf(W, i)>>

\* line 46
ear_max_iterations(vs) == Len(vs) * 2

\* lines 48-68 as a function of the loop state
RECURSIVE ear_loop(_, _, _, _)
ear_loop(W, res, its, maxit) ==
    IF Len(W) > 3 /\ its < maxit
    THEN LET i == FirstEar(W)
         IN  IF i = 0 THEN [V |-> W, result |-> res]
             ELSE ear_loop(ListRemove(W, W[i]), Append(res, EarTriangle(W, i)),
                           its + 1, maxit)
    ELSE [V |-> W, result |-> res]

\* mutant: the last triangle is emitted whenever at least 3 vertices remain
ear_final_atleast3(W, res) ==
    IF Len(W) >= 3 THEN Append(res, <<W[1], W[2], W[3]>>) ELSE res

\* lines 70-73
ear_final(W, res) == IF Len(W) = 3 THEN Append(res, <<W[1], W[2], W[3]>>) ELSE res

\* the whole function, lines 19-73
ear_clip(vs) ==
    IF Len(vs) < 3 THEN <<>>
    ELSE LET r == ear_loop(ensure_ccw(vs), <<>>, 0, ear_max_iterations(vs))
         IN  ear_final(r.V, r.result)

(***************************************************************************)
(* ear_clip, one while-iteration per step                                  *)
(***************************************************************************)
InitEar ==
    /\ \E n \in 0..MaxVerts : vertices \in [1..n -> Grid(NPoints)]
    /\ pc = "ear_call"
    /\ V = <<>>
    /\ result = <<>>
    /\ iterations = 0
    /\ input = <<>> /\ polygons = <<>> /\ merged = FALSE /\ iteration = 0
    /\ ncall = 0 /\ first = <<>>
    /\ UiIdle

\* lines 21-22: fewer than three vertices
EarTooFew ==
    /\ pc = "ear_call"
    /\ Len(vertices) < 3
    /\ result' = <<>>
    /\ pc' = "ear_returned"
    /\ UNCHANGED <<vertices, V, iterations, mergeVars, uiVars>>

\* lines 24-46
EarEnter ==
    /\ pc = "ear_call"
    /\ Len(vertices) >= 3
    /\ V' = ensure_ccw(vertices)
    /\ result' = <<>>
    /\ iterations' = 0
    /\ pc' = "ear_while"
    /\ UNCHANGED <<vertices, mergeVars, uiVars>>

\* lines 48-65: an iteration that finds an ear
EarClipOne ==
    /\ pc = "ear_while"
    /\ Len(V) > 3 /\ iterations < ear_max_iterations(vertices)
    /\ FirstEar(V) # 0
    /\ LET i == FirstEar(V)
       IN  /\ result' = Append(result, EarTriangle(V, i))
           /\ V' = ListRemove(V, V[i])
    /\ iterations' = iterations + 1
    /\ UNCHANGED <<pc, vertices, mergeVars, uiVars>>

\* lines 66-68: the for loop's else branch
EarNoEar ==
    /\ pc = "ear_while"
    /\ Len(V) > 3 /\ iterations < ear_max_iterations(vertices)
    /\ FirstEar(V) = 0
    /\ iterations' = iterations + 1
    /\ pc' = "ear_break"
    /\ UNCHANGED <<vertices, V, result, mergeVars, uiVars>>

\* lines 70-73, reached when the while condition fails or after the break
EarReturn ==
    /\ \/ pc = "ear_break"
       \/ pc = "ear_while" /\ ~ (Len(V) > 3 /\ iterations < ear_max_iterations(vertices))
    /\ result' = ear_final(V, result)
    /\ pc' = "ear_returned"
    /\ UNCHANGED <<vertices, V, iterations, mergeVars, uiVars>>

NextEar == EarTooFew \/ EarEnter \/ EarClipOne \/ EarNoEar \/ EarReturn

SpecEar == InitEar /\ [][NextEar]_vars

(***************************************************************************)
(* unique_points and merge_convex                                          *)
(***************************************************************************)
\* abs(p.x() - q.x()) < EPSILON and abs(p.y() - q.y()) < EPSILON
near(p, q) == Abs(p.x - q.x) = 0 /\ Abs(p.y - q.y) = 0

\* lines 76-83
RECURSIVE unique_from(_, _, _)
unique_from(pts, i, unique) ==
    IF i > Len(pts) THEN unique
    ELSE IF \E k \in 1..Len(unique) : near(pts[i], unique[k])
         THEN unique_from(pts, i + 1, unique)
         ELSE unique_from(pts, i + 1, Append(unique, pts[i]))

unique_points(pts) == unique_from(pts, 1, <<>>)

\* lines 114-119: the points of P that some point of Q matches, each once
RECURSIVE shared_from(_, _, _, _)
shared_from(P, Q, i, shared) ==
    IF i > Len(P) THEN shared
    ELSE IF /\ \E k \in 1..Len(Q) : near(P[i], Q[k])
            /\ \A k \in 1..Len(shared) : shared[k] # P[i]
         THEN shared_from(P, Q, i + 1, Append(shared, P[i]))
         ELSE shared_from(P, Q, i + 1, shared)

shared_points(P, Q) == shared_from(P, Q, 1, <<>>)

\* lines 125-135
is_edge(points, a, b) ==
    \E i \in 1..Len(points) :
        LET p1 == points[i]
            p2 == NextOf(points, i)
        IN  \/ near(p1, a) /\ near(p2, b)
            \/ near(p1, b) /\ near(p2, a)

\* lines 144-145 and the arguments of atan2 in line 148, scaled by
\* m = len(all_pts) so that they stay integers: (m * x - sum x, m * y - sum y)
\* is m times (x - cx, y - cy)
CentroidOffset(p, m, sum_x, sum_y) ==
    [x |-> m * p.x - sum_x, y |-> m * p.y - sum_y]

\* where atan2(d.y, d.x) lies: 0 for (-pi, 0), 1 for the value 0 (this is
\* also atan2(0, 0)), 2 for (0, pi), 3 for the value pi
AngleRange(d) ==
    IF d.y < 0 THEN 0
    ELSE IF d.y > 0 THEN 2
    ELSE IF d.x >= 0 THEN 1 ELSE 3

\* atan2(d.y, d.x) < atan2(e.y, e.x)
AngleLess(d, e) ==
    \/ AngleRange(d) < AngleRange(e)
    \/ /\ AngleRange(d) = AngleRange(e)
       /\ AngleRange(d) \in {0, 2}
       /\ d.x * e.y - d.y * e.x > 0

\* list.sort(key = ...) is stable: an element goes in front of the first
\* element whose key is greater.  Elements are pairs <<point, key>>.
InsertByAngle(sorted, e) ==
    LET later == {k \in 1..Len(sorted) : AngleLess(e[2], sorted[k][2])}
        at == IF later = {} THEN Len(sorted) + 1
              ELSE CHOOSE k \in later : \A l \in later : k <= l
    IN  [i \in 1..(Len(sorted) + 1) |->
            IF i < at THEN sorted[i]
            ELSE IF i = at THEN e
            ELSE sorted[i - 1]]

RECURSIVE SortPrefixByAngle(_, _)
SortPrefixByAngle(keyed, n) ==
    IF n = 0 THEN <<>>
    ELSE InsertByAngle(SortPrefixByAngle(keyed, n - 1), keyed[n])

\* lines 141-148: the candidate polygon of a merge of P and Q
merge_candidate(P, Q) ==
    LET all_pts == unique_points(P \o Q)
        m == Len(all_pts)
        sum_x == SumTo([k \in 1..m |-> all_pts[k].x], m)
        sum_y == SumTo([k \in 1..m |-> all_pts[k].y], m)
        keyed == [k \in 1..m |->
                     <<all_pts[k], CentroidOffset(all_pts[k], m, sum_x, sum_y)>>]
        sorted == SortPrefixByAngle(keyed, m)
    IN  [k \in 1..m |-> sorted[k][1]]

\* mutant: a collinear vertex passes the convexity test (< for <=)
is_conv_weak(all_pts) ==
    \A k \in 1..Len(all_pts) :
        ~ (_area2(PrevOf(all_pts, k), all_pts[k], NextOf(all_pts, k)) < 0)

\* lines 150-157
is_conv(all_pts) ==
    \A k \in 1..Len(all_pts) :
        ~ (_area2(PrevOf(all_pts, k), all_pts[k], NextOf(all_pts, k)) <= 0)

\* lines 110-160: the pair P, Q reaches the merge of lines 162-169
can_merge(P, Q) ==
    LET shared == shared_points(P, Q)
    IN  /\ Len(shared) = 2
        /\ is_edge(P, shared[1], shared[2])
        /\ is_edge(Q, shared[1], shared[2])
        /\ is_conv(merge_candidate(P, Q))

\* lines 105-169: the first pair (i, j), i < j, in scan order that merges;
\* <<0, 0>> when the scan ends without a merge
RECURSIVE FirstPairLastJ(_, _)
FirstPairLastJ(polys, i) ==
    IF i > Len(polys) THEN <<0, 0>>
    ELSE LET js == {j \in (i + 1)..Len(polys) : can_merge(polys[i], polys[j])}
         IN  IF js = {} THEN FirstPairLastJ(polys, i + 1)
             ELSE <<i, CHOOSE j \in js : \A l \in js : j >= l>>

RECURSIVE FirstPairFrom(_, _)
FirstPairFrom(polys, i) ==
    IF i > Len(polys) THEN <<0, 0>>
    ELSE LET js == {j \in (i + 1)..Len(polys) : can_merge(polys[i], polys[j])}
         IN  IF js = {} THEN FirstPairFrom(polys, i + 1)
             ELSE <<i, CHOOSE j \in js : \A l \in js : j <= l>>

FirstPair(polys) == FirstPairFrom(polys, 1)

\* list.pop(k)
ListPop(s, k) == [i \in 1..(Len(s) - 1) |-> IF i < k THEN s[i] ELSE s[i + 1]]

\* lines 162-167
merge_pair(polys, i, j) ==
    Append(ListPop(ListPop(polys, j), i), merge_candidate(polys[i], polys[j]))

\* line 97
max_iterations == 100

\* lines 100-169 as a function of the loop state
RECURSIVE merge_loop(_, _, _)
merge_loop(polys, mrg, iter) ==
    IF mrg /\ iter < max_iterations
    THEN LET pr == FirstPair(polys)
         IN  IF pr = <<0, 0>> THEN merge_loop(polys, FALSE, iter + 1)
             ELSE merge_loop(merge_pair(polys, pr[1], pr[2]), TRUE, iter + 1)
    ELSE polys

\* the whole function, lines 86-171
merge_convex(polys) == IF polys = <<>> THEN <<>> ELSE merge_loop(polys, TRUE, 0)

(***************************************************************************)
(* merge_convex, one pass of the while loop per step; a second call on the *)
(* list the first call returned                                            *)
(***************************************************************************)
\* the argument of the running call
MergeArg == IF ncall = 1 THEN input ELSE first

\* lines 90-91
MergeEmpty ==
    /\ pc = "merge_call"
    /\ MergeArg = <<>>
    /\ polygons' = <<>>
    /\ pc' = "merge_returned"
    /\ UNCHANGED <<vertices, earVars, input, merged, iteration, ncall, first, uiVars>>

\* lines 94-98
MergeEnter ==
    /\ pc = "merge_call"
    /\ MergeArg # <<>>
    /\ polygons' = MergeArg
    /\ merged' = TRUE
    /\ iteration' = 0
    /\ pc' = "merge_while"
    /\ UNCHANGED <<vertices, earVars, input, ncall, first, uiVars>>

\* lines 100-169: a pass that merges the first pair it finds
MergePassMerge ==
    /\ pc = "merge_while"
    /\ merged /\ iteration < max_iterations
    /\ LET pr == FirstPair(polygons)
       IN  /\ pr # <<0, 0>>
           /\ polygons' = merge_pair(polygons, pr[1], pr[2])
    /\ merged' = TRUE
    /\ iteration' = iteration + 1
    /\ UNCHANGED <<pc, vertices, earVars, input, ncall, first, uiVars>>

\* lines 100-160: a pass that scans every pair and merges none
MergePassNone ==
    /\ pc = "merge_while"
    /\ merged /\ iteration < max_iterations
    /\ FirstPair(polygons) = <<0, 0>>
    /\ merged' = FALSE
    /\ iteration' = iteration + 1
    /\ UNCHANGED <<pc, vertices, earVars, input, polygons, ncall, first, uiVars>>

\* line 171, were it reachable from anywhere in the loop
MergeReturnAnytime ==
    /\ pc = "merge_while"
    /\ pc' = "merge_returned"
    /\ UNCHANGED <<vertices, earVars, mergeVars, uiVars>>

\* line 171, reached when the while condition of line 100 fails
MergeReturn ==
    /\ pc = "merge_while"
    /\ \/ ~ merged
       \/ iteration >= max_iterations
    /\ pc' = "merge_returned"
    /\ UNCHANGED <<vertices, earVars, mergeVars, uiVars>>

\* merge_convex(merge_convex(X)): the returned list is handed to a second call
MergeAgain ==
    /\ pc = "merge_returned"
    /\ ncall = 1
    /\ first' = polygons
    /\ ncall' = 2
    /\ pc' = "merge_call"
    /\ UNCHANGED <<vertices, earVars, input, polygons, merged, iteration, uiVars>>

NextMerge ==
    MergeEmpty \/ MergeEnter \/ MergePassMerge \/ MergePassNone \/ MergeReturn
        \/ MergeAgain

(***************************************************************************)
(* Vocabulary of the properties: simple polygons and areas                 *)
(***************************************************************************)
\* p lies on the closed segment ab
OnSegment(a, b, p) ==
    /\ _area2(a, b, p) = 0
    /\ Min2(a.x, b.x) <= p.x /\ p.x <= Max2(a.x, b.x)
    /\ Min2(a.y, b.y) <= p.y /\ p.y <= Max2(a.y, b.y)

\* the closed segments ab and cd have a common point
SegmentsMeet(a, b, c, d) ==
    \/ /\ Sign(_area2(a, b, c)) * Sign(_area2(a, b, d)) < 0
       /\ Sign(_area2(c, d, a)) * Sign(_area2(c, d, b)) < 0
    \/ OnSegment(a, b, c) \/ OnSegment(a, b, d)
    \/ OnSegment(c, d, a) \/ OnSegment(c, d, b)

DistinctVertices(p) == \A i, j \in 1..Len(p) : i # j => p[i] # p[j]

\* no vertex is collinear with its two neighbours
NonDegenerate(p) ==
    \A i \in 1..Len(p) : _area2(PrevOf(p, i), p[i], NextOf(p, i)) # 0

\* edges i and j (edge i runs from p[i] to its successor) are neighbours
AdjacentEdges(n, i, j) == j = (i % n) + 1 \/ i = (j % n) + 1

\* a simple polygon with non-degenerate vertices, in either winding
IsSimplePolygon(p) ==
    /\ Len(p) >= 3
    /\ DistinctVertices(p)
    /\ NonDegenerate(p)
    /\ \A i, j \in 1..Len(p) :
          (i < j /\ ~ AdjacentEdges(Len(p), i, j))
              => ~ SegmentsMeet(p[i], NextOf(p, i), p[j], NextOf(p, j))

HasReflexVertex(p) ==
    \E i \in 1..Len(p) :
        Sign(_area2(PrevOf(p, i), p[i], NextOf(p, i))) = - Sign(area_sum(p))

\* sum over a triangle list of twice the unsigned areas
TrianglesArea2(ts) ==
    SumTo([k \in 1..Len(ts) |-> Abs(_area2(ts[k][1], ts[k][2], ts[k][3]))], Len(ts))

StrictlyConvex(p) ==
    /\ Len(p) >= 3
    /\ \A k \in 1..Len(p) : _area2(PrevOf(p, k), p[k], NextOf(p, k)) > 0

\* twice the unsigned area of a polygon
PolyArea2(p) == Abs(area_sum(p))

PointSet(p) == {p[k] : k \in 1..Len(p)}

(***************************************************************************)
(* The inputs of merge_convex                                              *)
(***************************************************************************)
\* edge directions of a quarter turn of the large convex polygon, by angle
BigDirs ==
    << <<1, 0>>, <<7, 1>>, <<6, 1>>, <<5, 1>>, <<4, 1>>, <<3, 1>>, <<5, 2>>,
       <<2, 1>>, <<5, 3>>, <<3, 2>>, <<4, 3>>, <<5, 4>>, <<1, 1>>, <<4, 5>>,
       <<3, 4>>, <<2, 3>>, <<3, 5>>, <<1, 2>>, <<2, 5>>, <<1, 3>>, <<2, 7>>,
       <<1, 4>>, <<1, 5>>, <<1, 6>>, <<1, 7>>, <<1, 8>> >>

\* d turned by q quarter turns
RECURSIVE QuarterTurns(_, _)
QuarterTurns(d, q) == IF q = 0 THEN d ELSE QuarterTurns(<<- d[2], d[1]>>, q - 1)

BigEdge(k) ==
    QuarterTurns(BigDirs[((k - 1) % Len(BigDirs)) + 1], (k - 1) \div Len(BigDirs))

RECURSIVE BigVertex(_)
BigVertex(k) ==
    IF k = 1 THEN Pt(85, 0)
    ELSE LET v == BigVertex(k - 1)
             e == BigEdge(k - 1)
         IN  Pt(v.x + e[1], v.y + e[2])

\* a strictly convex polygon of max_iterations + 4 vertices: ear_clip cuts it
\* into max_iterations + 2 triangles
BigPolygon == [k \in 1..(4 * Len(BigDirs)) |-> BigVertex(k)]

\* triangles (any winding, collinear ones too) with three different vertices
RawTriangles == {t \in [1..3 -> Grid(RawPoints)] : DistinctVertices(t)}

\* lists of at most two such triangles
RawInputs == {<<>>} \cup {<<t>> : t \in RawTriangles}
                 \cup {<<t, u>> : t \in RawTriangles, u \in RawTriangles}

\* Init: merge_convex is called with the triangles ear_clip returned for a
\* simple polygon (as decompose does, lines 536-545), or with a free list
InitMerge ==
    /\ \/ /\ \/ \E n \in 3..MaxVerts :
                   /\ vertices \in [1..n -> Grid(NPoints)]
                   /\ IsSimplePolygon(vertices)
             \/ vertices = BigPolygon
          /\ input = ear_clip(vertices)
       \/ /\ vertices = <<>>
          /\ input \in RawInputs
    /\ pc = "merge_call"
    /\ ncall = 1
    /\ first = <<>>
    /\ polygons = <<>> /\ merged = FALSE /\ iteration = 0
    /\ V = <<>> /\ result = <<>> /\ iterations = 0
    /\ UiIdle

SpecMerge == InitMerge /\ [][NextMerge]_vars

\* the steps of merge_convex itself; the second call is the caller's
MergeStep ==
    MergeEmpty \/ MergeEnter \/ MergePassMerge \/ MergePassNone \/ MergeReturn

\* lines 100-102: a pass of the while loop, whatever it finds.  On the
\* program counter and the pass counter it is MergePassMerge \/ MergePassNone:
\* one of the two is possible whenever the loop condition holds
MergePass ==
    /\ pc = "merge_while"
    /\ merged /\ iteration < max_iterations
    /\ iteration' = iteration + 1
    /\ pc' = pc

\* a call that has begun keeps executing: it enters, runs its next pass or
\* returns as long as it can
MergeRun == MergeEmpty \/ MergeEnter \/ MergePass \/ MergeReturn

\* the caller before it has chosen what to merge
InitCaller ==
    /\ pc = "merge_caller"
    /\ vertices = <<>> /\ input = <<>>
    /\ ncall = 1
    /\ first = <<>>
    /\ polygons = <<>> /\ merged = FALSE /\ iteration = 0
    /\ V = <<>> /\ result = <<>> /\ iterations = 0
    /\ UiIdle

\* the call of merge_convex, with any of the arguments of InitMerge
MergeCallWith ==
    /\ pc = "merge_caller"
    /\ \/ /\ \/ \E n \in 3..MaxVerts : \E vs \in [1..n -> Grid(NPoints)] :
                   /\ IsSimplePolygon(vs)
                   /\ vertices' = vs
             \/ vertices' = BigPolygon
          /\ input' = ear_clip(vertices')
       \/ /\ vertices' = <<>>
          /\ input' \in RawInputs
    /\ pc' = "merge_call"
    /\ UNCHANGED <<earVars, polygons, merged, iteration, ncall, first, uiVars>>

NextMergeFair == MergeCallWith \/ MergeStep \/ MergeAgain

SpecMergeFair ==
    InitCaller /\ [][NextMergeFair]_vars /\ WF_<<pc, iteration>>(MergeRun)

(***************************************************************************)
(* The coverage path.  The closed shape has integer coordinates and the    *)
(* spacing is a whole number, so every scan height is an integer; the x of *)
(* a crossing is kept exactly, as the fraction <<num, den>> with den > 0.  *)
(***************************************************************************)
PathScale == 4
MaxSpacing == 2

RatLess(p, q) == p[1] * q[2] < q[1] * p[2]
RatEq(p, q) == p[1] * q[2] = q[1] * p[2]
RatPlus(p, k) == <<p[1] + k * p[2], p[2]>>

\* QLineF(x1, y1, x2, y2) and QLineF(p1, p2)
QLineF(a, b) == [p1 |-> a, p2 |-> b]

\* line 432, the half-open test of an edge a -> b against the height y
crossing_edge_closed(a, b, y) ==
    (a.y <= y /\ y <= b.y) \/ (b.y <= y /\ y <= a.y)

crossing_edge(a, b, y) ==
    (a.y <= y /\ y < b.y) \/ (b.y <= y /\ y < a.y)

\* lines 433-434: x = a.x + t * (b.x - a.x), t = (y - a.y) / (b.y - a.y)
crossing_x(a, b, y) ==
    LET den == b.y - a.y
        num == a.x * den + (y - a.y) * (b.x - a.x)
    IN  IF den < 0 THEN <<0 - num, 0 - den>> ELSE <<num, den>>

\* lines 425-435: the crossings of the height y, in edge order
RECURSIVE scan_xs_from(_, _, _, _)
scan_xs_from(poly, y, i, xs) ==
    IF i > Len(poly) THEN xs
    ELSE LET a == poly[i]
             b == NextOf(poly, i)
         IN  IF crossing_edge(a, b, y)
             THEN scan_xs_from(poly, y, i + 1, Append(xs, crossing_x(a, b, y)))
             ELSE scan_xs_from(poly, y, i + 1, xs)

scan_xs(poly, y) == scan_xs_from(poly, y, 1, <<>>)

\* line 438, xs.sort(): a stable sort of the crossings
RECURSIVE InsertRat(_, _)
InsertRat(sorted, e) ==
    IF sorted = <<>> THEN <<e>>
    ELSE IF RatLess(e, sorted[Len(sorted)])
         THEN Append(InsertRat(SubSeq(sorted, 1, Len(sorted) - 1), e),
                     sorted[Len(sorted)])
         ELSE Append(sorted, e)

RECURSIVE SortRats(_, _)
SortRats(xs, n) ==
    IF n = 0 THEN <<>> ELSE InsertRat(SortRats(xs, n - 1), xs[n])

\* lines 440-446: the pairs (xs[0], xs[1]), (xs[2], xs[3]), ..., each inset
RECURSIVE stripes_of_pairs_noinset(_, _, _, _, _)
stripes_of_pairs_noinset(xs, y, inset, i, lines) ==
    IF i >= Len(xs) THEN lines
    ELSE LET x0 == xs[i]
             x1 == xs[i + 1]
         IN  stripes_of_pairs_noinset(xs, y, inset, i + 2,
                 IF RatLess(x0, x1)
                 THEN Append(lines, QLineF([x |-> x0, y |-> y], [x |-> x1, y |-> y]))
                 ELSE lines)

RECURSIVE stripes_of_pairs(_, _, _, _, _)
stripes_of_pairs(xs, y, inset, i, lines) ==
    IF i >= Len(xs) THEN lines
    ELSE LET x0 == RatPlus(xs[i], inset)
             x1 == RatPlus(xs[i + 1], 0 - inset)
         IN  stripes_of_pairs(xs, y, inset, i + 2,
                 IF RatLess(x0, x1)
                 THEN Append(lines, QLineF([x |-> x0, y |-> y], [x |-> x1, y |-> y]))
                 ELSE lines)

\* lines 437-446
scan_line(poly, y, inset, lines) ==
    LET xs == scan_xs(poly, y)
    IN  IF Len(xs) >= 2
        THEN stripes_of_pairs(SortRats(xs, Len(xs)), y, inset, 1, lines)
        ELSE lines

\* lines 425-448: while y <= y_max - spacing
RECURSIVE lawn_loop(_, _, _, _, _)
lawn_loop(poly, s, y, y_max, lines) ==
    IF y <= y_max - s
    THEN lawn_loop(poly, s, y + s, y_max, scan_line(poly, y, s, lines))
    ELSE lines

MinY(poly) ==
    CHOOSE m \in {poly[i].y : i \in 1..Len(poly)} :
        \A i \in 1..Len(poly) : m <= poly[i].y

MaxY(poly) ==
    CHOOSE m \in {poly[i].y : i \in 1..Len(poly)} :
        \A i \in 1..Len(poly) : m >= poly[i].y

compute_lawnmower(poly, s) ==
    lawn_loop(poly, s, MinY(poly) + s, MaxY(poly), <<>>)

\* line 361, stripes.sort(key = line.y1()): a stable sort
RECURSIVE InsertByY1(_, _)
InsertByY1(sorted, e) ==
    IF sorted = <<>> THEN <<e>>
    ELSE IF e.p1.y < sorted[Len(sorted)].p1.y
         THEN Append(InsertByY1(SubSeq(sorted, 1, Len(sorted) - 1), e),
                     sorted[Len(sorted)])
         ELSE Append(sorted, e)

RECURSIVE sort_by_y1(_, _)
sort_by_y1(st, n) ==
    IF n = 0 THEN <<>> ELSE InsertByY1(sort_by_y1(st, n - 1), st[n])

\* lines 363-383: the lines one piece adds to the scene.  idx counts from 0
\* as enumerate does; prev_endpoint is <<>> for None and <<p>> for a point
RECURSIVE piece_path_swapped(_, _, _, _)
piece_path_swapped(st, idx, prev_endpoint, added) ==
    IF idx >= Len(st) THEN added
    ELSE LET seg     == st[idx + 1]
             swap    == idx % 2 = 0
             p_start == IF swap THEN seg.p2 ELSE seg.p1
             p_end   == IF swap THEN seg.p1 ELSE seg.p2
             conn    == IF prev_endpoint # <<>>
                        THEN <<QLineF(prev_endpoint[1], p_start)>>
                        ELSE <<>>
         IN  piece_path_swapped(st, idx + 1, <<p_end>>,
                                added \o conn \o <<QLineF(p_start, p_end)>>)

RECURSIVE piece_path_from(_, _, _, _)
piece_path_from(st, idx, prev_endpoint, added) ==
    IF idx >= Len(st) THEN added
    ELSE LET seg     == st[idx + 1]
             swap    == idx % 2 = 1
             p_start == IF swap THEN seg.p2 ELSE seg.p1
             p_end   == IF swap THEN seg.p1 ELSE seg.p2
             conn    == IF prev_endpoint # <<>>
                        THEN <<QLineF(prev_endpoint[1], p_start)>>
                        ELSE <<>>
         IN  piece_path_from(st, idx + 1, <<p_end>>,
                             added \o conn \o <<QLineF(p_start, p_end)>>)

\* lines 359-383: one turn of the loop over the pieces; prev_endpoint = None
piece_path(st) == piece_path_from(sort_by_y1(st, Len(st)), 0, <<>>, <<>>)

\* the event loop is waiting for the next click
Idle ==
    pc \in {"ui_idle", "decompose_no_shape", "decompose_failed", "decomposed",
            "gen_no_pieces", "gen_returned", "colors_updated"}

\* decompose, lines 528-530
DecomposeNoShape ==
    /\ Idle
    /\ last_closed = <<>>
    /\ pc' = "decompose_no_shape"
    /\ UNCHANGED <<vertices, earVars, mergeVars, uiVars>>

\* decompose, lines 533-539; clear_decomposition empties convex_pieces and
\* the scene
DecomposeFailed ==
    /\ Idle
    /\ last_closed # <<>>
    /\ ear_clip(last_closed) = <<>>
    /\ convex_pieces' = <<>>
    /\ path_lines' = <<>>
    /\ pc' = "decompose_failed"
    /\ UNCHANGED <<vertices, earVars, mergeVars, current, last_closed, spacing,
                   piece_idx, stripes>>

\* decompose, lines 533-551
DecomposeOk ==
    /\ Idle
    /\ last_closed # <<>>
    /\ LET tris == ear_clip(last_closed)
       IN  /\ tris # <<>>
           /\ convex_pieces' = merge_convex(tris)
    /\ path_lines' = <<>>
    /\ pc' = "decomposed"
    /\ UNCHANGED <<vertices, earVars, mergeVars, current, last_closed, spacing,
                   piece_idx, stripes>>

\* generate_paths, lines 346-348
GenPathsNoPieces ==
    /\ Idle
    /\ convex_pieces = <<>>
    /\ pc' = "gen_no_pieces"
    /\ UNCHANGED <<vertices, earVars, mergeVars, uiVars>>

\* generate_paths, lines 350-356: the old path lines leave the scene
GenPathsBegin ==
    /\ Idle
    /\ convex_pieces # <<>>
    /\ path_lines' = <<>>
    /\ piece_idx' = 0
    /\ stripes' = <<>>
    /\ pc' = "gen_for"
    /\ UNCHANGED <<vertices, earVars, mergeVars, current, last_closed,
                   convex_pieces, spacing>>

\* generate_paths, lines 358-383, had prev_endpoint outlived the piece
GenPathsPieceJoined ==
    /\ pc = "gen_for"
    /\ piece_idx < Len(convex_pieces)
    /\ LET st   == compute_lawnmower(convex_pieces[piece_idx + 1], spacing)
           new  == piece_path(st)
           join == IF path_lines # <<>> /\ new # <<>>
                   THEN <<QLineF(path_lines[Len(path_lines)].p2, new[1].p1)>>
                   ELSE <<>>
       IN  /\ stripes' = st
           /\ path_lines' = path_lines \o join \o new
    /\ piece_idx' = piece_idx + 1
    /\ UNCHANGED <<pc, vertices, earVars, mergeVars, current, last_closed,
                   convex_pieces, spacing>>

\* generate_paths, lines 358-383: the next piece
GenPathsPiece ==
    /\ pc = "gen_for"
    /\ piece_idx < Len(convex_pieces)
    /\ LET st == compute_lawnmower(convex_pieces[piece_idx + 1], spacing)
       IN  /\ stripes' = st
           /\ path_lines' = path_lines \o piece_path(st)
    /\ piece_idx' = piece_idx + 1
    /\ UNCHANGED <<pc, vertices, earVars, mergeVars, current, last_closed,
                   convex_pieces, spacing>>

\* generate_paths, line 385
GenPathsEnd ==
    /\ pc = "gen_for"
    /\ piece_idx = Len(convex_pieces)
    /\ pc' = "gen_returned"
    /\ UNCHANGED <<vertices, earVars, mergeVars, uiVars>>

\* update_colors, lines 654-658, on a change of the colour scheme.  With
\* pieces, clear_decomposition empties convex_pieces and the scene (lines
\* 611-612) and redraws only the shape; draw_decomposition then finds no
\* piece and returns at lines 555-556.  The locals of generate_paths are
\* not live outside it and are set back to their initial values
UpdateColors ==
    /\ Idle
    /\ IF convex_pieces # <<>>
       THEN convex_pieces' = <<>> /\ path_lines' = <<>>
       ELSE UNCHANGED <<convex_pieces, path_lines>>
    /\ pc' = "colors_updated"
    /\ piece_idx' = 0 /\ stripes' = <<>>
    /\ UNCHANGED <<vertices, earVars, mergeVars, current, last_closed, spacing>>

NextPath ==
    \/ UpdateColors
    \/ DecomposeNoShape
    \/ DecomposeFailed
    \/ DecomposeOk
    \/ GenPathsNoPieces
    \/ GenPathsBegin
    \/ GenPathsPiece
    \/ GenPathsEnd

ScaleBy(p, k) == [i \in 1..Len(p) |-> Pt(k * p[i].x, k * p[i].y)]

\* a closed shape, or none: simple polygons and the quadrilaterals ear_clip
\* cannot triangulate at all, on the lattice stretched by PathScale; the
\* spacing is one the spin box allows (lines 333-335)
InitPath ==
    /\ \/ last_closed = <<>>
       \/ \E n \in 3..MaxVerts : \E p \in [1..n -> Grid(NPoints)] :
             /\ IsSimplePolygon(p)
             /\ last_closed = ScaleBy(p, PathScale)
       \/ \E p \in [1..4 -> Grid(NPoints)] :
             /\ ear_clip(p) = <<>>
             /\ last_closed = ScaleBy(p, PathScale)
    /\ spacing \in 1..MaxSpacing
    /\ current = <<>>
    /\ convex_pieces = <<>>
    /\ path_lines = <<>>
    /\ piece_idx = 0
    /\ stripes = <<>>
    /\ pc = "ui_idle"
    /\ vertices = <<>>
    /\ V = <<>> /\ result = <<>> /\ iterations = 0
    /\ input = <<>> /\ polygons = <<>> /\ merged = FALSE /\ iteration = 0
    /\ ncall = 0 /\ first = <<>>

SpecPath == InitPath /\ [][NextPath]_vars

(***************************************************************************)
(* C1: for every simple polygon with n >= 3 non-degenerate vertices, in    *)
(* either winding, ear_clip returns exactly n - 2 triangles and the sum of *)
(* their unsigned areas is the unsigned area of the polygon.               *)
(***************************************************************************)
C1_TriangulationComplete ==
    (pc = "ear_returned" /\ IsSimplePolygon(vertices))
        => /\ Len(result) = Len(vertices) - 2
           /\ TrianglesArea2(result) = Abs(area_sum(vertices))

\* a clockwise, non-convex pentagon has been triangulated
C1_Witness ==
    /\ pc = "ear_returned"
    /\ IsSimplePolygon(vertices)
    /\ Len(vertices) = 5
    /\ area_sum(vertices) < 0
    /\ HasReflexVertex(vertices)
    /\ Len(result) = 3

(***************************************************************************)
(* C2 as claimed: for any input list, every polygon merge_convex returns   *)
(* has strictly positive signed area at every cyclic vertex triple.        *)
(***************************************************************************)
C2_AllReturnedConvex ==
    pc = "merge_returned"
        => \A k \in 1..Len(polygons) : StrictlyConvex(polygons[k])

(***************************************************************************)
(* C2 as amended: when every polygon of the input list has strictly        *)
(* positive signed area at every cyclic vertex triple, so has every        *)
(* polygon merge_convex returns, merged or not.                            *)
(***************************************************************************)
C2_ConvexInConvexOut ==
    (/\ pc = "merge_returned"
     /\ \A k \in 1..Len(MergeArg) : StrictlyConvex(MergeArg[k]))
        => \A k \in 1..Len(polygons) : StrictlyConvex(polygons[k])

\* convex input of which one pair was merged and another piece was left
C2_Witness ==
    /\ pc = "merge_returned"
    /\ ncall = 1
    /\ \A k \in 1..Len(input) : StrictlyConvex(input[k])
    /\ Len(input) = 3
    /\ Len(polygons) = 2
    /\ polygons[1] = input[1]
    /\ Len(polygons[2]) = 4

(***************************************************************************)
(* C3: the region covered by the output of merge_convex has the area of    *)
(* the region covered by its input, and the output is never longer than    *)
(* the input.  The area of a covered region is at least the area of each   *)
(* piece and at most the sum of the areas of the pieces, so equal covered  *)
(* areas put every piece of one list under the area sum of the other.      *)
(***************************************************************************)
AreaSum2(polys) == SumTo([k \in 1..Len(polys) |-> PolyArea2(polys[k])], Len(polys))

C3_AreaPreserved ==
    (pc = "merge_returned" /\ ncall = 1)
        => /\ Len(polygons) <= Len(input)
           /\ \A k \in 1..Len(polygons) : PolyArea2(polygons[k]) <= AreaSum2(input)
           /\ \A k \in 1..Len(input) : PolyArea2(input[k]) <= AreaSum2(polygons)

(***************************************************************************)
(* C4: merge_convex(merge_convex(X)) = merge_convex(X) for every list X.   *)
(***************************************************************************)
C4_Idempotent ==
    (pc = "merge_returned" /\ ncall = 2) => polygons = first

(***************************************************************************)
(* C5: for every strictly convex polygon P, in either winding,             *)
(* merge_convex of the triangles of ear_clip(P) is exactly one piece, and  *)
(* its vertex set is the vertex set of P.                                  *)
(***************************************************************************)
C5_RoundTrip ==
    (/\ pc = "merge_returned" /\ ncall = 1
     /\ StrictlyConvex(ensure_ccw(vertices)))
        => /\ Len(polygons) = 1
           /\ PointSet(polygons[1]) = PointSet(vertices)

(***************************************************************************)
(* Vocabulary of the coverage-path claims.                                 *)
(***************************************************************************)
IsConvexPiece(poly) == StrictlyConvex(poly) \/ StrictlyConvex(Reverse(poly))

\* generate_paths has planned at least one piece; the last one planned
PiecePlanned == pc \in {"gen_for", "gen_returned"} /\ piece_idx >= 1
LastPlanned == convex_pieces[piece_idx]

\* the segments of a path follow one another
Connected(path) ==
    \A i \in 1..(Len(path) - 1) : path[i + 1].p1 = path[i].p2

\* where the line through a and b is at the height y (a.y # b.y)
LineXAt(a, b, y) ==
    LET dy == Abs(a.y - b.y)
        sg == Sign(a.y - b.y)
    IN  <<b.x * dy + sg * (y - b.y) * (a.x - b.x), dy>>

\* the points of the boundary of poly at the height y, for a height that
\* meets no horizontal edge
BoundaryXs(poly, y) ==
    { LineXAt(poly[i], NextOf(poly, i), y) :
        i \in { k \in 1..Len(poly) :
                  /\ poly[k].y # NextOf(poly, k).y
                  /\ Min2(poly[k].y, NextOf(poly, k).y) <= y
                  /\ y <= Max2(poly[k].y, NextOf(poly, k).y) } }

LeftX(poly, y) ==
    CHOOSE m \in BoundaryXs(poly, y) :
        \A e \in BoundaryXs(poly, y) : ~ RatLess(e, m)

RightX(poly, y) ==
    CHOOSE m \in BoundaryXs(poly, y) :
        \A e \in BoundaryXs(poly, y) : ~ RatLess(m, e)

\* the scan heights y = yMin + k * s, k = 1, 2, ..., with y <= yMax - s
ScanHeights(poly, s) ==
    { y \in (MinY(poly) + 1)..(MaxY(poly) - s) :
        \E k \in 1..(MaxY(poly) - MinY(poly)) : y = MinY(poly) + k * s }

\* after the inset there is room left at the height y
HasRoom(poly, s, y) ==
    RatLess(RatPlus(LeftX(poly, y), s), RatPlus(RightX(poly, y), 0 - s))

(***************************************************************************)
(* C6: for one convex piece yielding k >= 1 stripes, generate_paths emits  *)
(* exactly 2k - 1 segments, the k stripes interleaved with k - 1           *)
(* transitions; every segment starts where the previous one ended; the     *)
(* stripes alternate direction, the even-indexed ones running from lower x *)
(* to higher x and the odd-indexed ones from higher x to lower x.          *)
(***************************************************************************)
C6_SinglePiecePath ==
    (/\ pc = "gen_returned"
     /\ Len(convex_pieces) = 1
     /\ IsConvexPiece(convex_pieces[1])
     /\ Len(stripes) >= 1)
        => LET k == Len(stripes)
           IN  /\ Len(path_lines) = 2 * k - 1
               /\ Connected(path_lines)
               /\ \A idx \in 0..(k - 1) :
                     LET seg == path_lines[2 * idx + 1]
                     IN  /\ {seg.p1, seg.p2} = {stripes[idx + 1].p1, stripes[idx + 1].p2}
                         /\ seg.p1.y = seg.p2.y
                         /\ IF idx % 2 = 0
                            THEN RatLess(seg.p1.x, seg.p2.x)
                            ELSE RatLess(seg.p2.x, seg.p1.x)

\* one piece, at least three stripes, so both directions and two transitions
C6_Witness ==
    /\ pc = "gen_returned"
    /\ Len(convex_pieces) = 1
    /\ IsConvexPiece(convex_pieces[1])
    /\ Len(stripes) >= 3
    /\ Len(path_lines) = 2 * Len(stripes) - 1

(***************************************************************************)
(* C7: for a convex piece of vertical extent [yMin, yMax] and a spacing    *)
(* s > 0, compute_lawnmower emits stripes only at the heights              *)
(* y = yMin + k * s (k = 1, 2, ...) with y <= yMax - s, at most one per    *)
(* height and in strictly increasing y; each stripe spans exactly          *)
(* [x0 + s, x1 - s], x0 < x1 being the two boundary crossings at its       *)
(* height, and a height has a stripe only if x1 - s > x0 + s (and does     *)
(* have one then).  A piece with yMax - yMin < 2s yields no stripe.        *)
(***************************************************************************)
C7_StripeGeometry ==
    (PiecePlanned /\ IsConvexPiece(LastPlanned))
        => LET poly == LastPlanned
               s    == spacing
           IN  /\ \A i \in 1..Len(stripes) :
                     LET y == stripes[i].p1.y
                     IN  /\ stripes[i].p2.y = y
                         /\ y \in ScanHeights(poly, s)
                         /\ RatLess(LeftX(poly, y), RightX(poly, y))
                         /\ HasRoom(poly, s, y)
                         /\ RatEq(stripes[i].p1.x, RatPlus(LeftX(poly, y), s))
                         /\ RatEq(stripes[i].p2.x, RatPlus(RightX(poly, y), 0 - s))
               /\ \A i, j \in 1..Len(stripes) :
                     i < j => stripes[i].p1.y < stripes[j].p1.y
               /\ \A y \in ScanHeights(poly, s) :
                     HasRoom(poly, s, y)
                         => \E i \in 1..Len(stripes) : stripes[i].p1.y = y
               /\ MaxY(poly) - MinY(poly) < 2 * s => stripes = <<>>

\* a piece with slanted sides: two stripes or more, one of them ending at a
\* fractional x, and a scan height left without a stripe for lack of room
C7_Witness ==
    /\ PiecePlanned
    /\ IsConvexPiece(LastPlanned)
    /\ Len(stripes) >= 2
    /\ \E i \in 1..Len(stripes) : stripes[i].p1.x[2] > 1
    /\ \E y \in ScanHeights(LastPlanned, spacing) :
          ~ HasRoom(LastPlanned, spacing, y)

(***************************************************************************)
(* C8: when generate_paths plans several convex pieces, the paths of the   *)
(* pieces are concatenated in the order of convex_pieces and a transition  *)
(* joins the last stripe end of one piece to the first stripe start of the *)
(* next, so the whole output is one connected sequence of segments.        *)
(***************************************************************************)
RECURSIVE PathsInOrder(_, _)
PathsInOrder(pieces, n) ==
    IF n = 0 THEN <<>>
    ELSE PathsInOrder(pieces, n - 1) \o <<piece_path(compute_lawnmower(pieces[n], spacing))>>

RECURSIVE JoinedPaths(_, _)
JoinedPaths(paths, n) ==
    IF n = 0 THEN <<>>
    ELSE LET before == JoinedPaths(paths, n - 1)
             this   == paths[n]
         IN  IF before = <<>> \/ this = <<>> THEN before \o this
             ELSE before \o <<QLineF(before[Len(before)].p2, this[1].p1)>> \o this

C8_PiecesJoined ==
    (pc = "gen_returned" /\ Len(convex_pieces) >= 2)
        => /\ path_lines =
                JoinedPaths(PathsInOrder(convex_pieces, Len(convex_pieces)),
                            Len(convex_pieces))
           /\ Connected(path_lines)

(***************************************************************************)
(* C8, as the code has it: the paths of the pieces are concatenated in the *)
(* order of convex_pieces and nothing is put between them.  Planning a     *)
(* piece with k stripes appends exactly its own 2k - 1 segments (none when *)
(* k = 0) after what the earlier pieces left; the first of them is the     *)
(* piece's first stripe, and they are connected among themselves.          *)
(***************************************************************************)
C8_PiecesConcatenated ==
    [][(pc = "gen_for" /\ piece_idx' = piece_idx + 1)
          => LET k   == Len(stripes')
                 old == Len(path_lines)
             IN  /\ Len(path_lines') = old + (IF k = 0 THEN 0 ELSE 2 * k - 1)
                 /\ SubSeq(path_lines', 1, old) = path_lines
                 /\ k >= 1 =>
                       /\ path_lines'[old + 1] = QLineF(stripes'[1].p1, stripes'[1].p2)
                       /\ Connected(SubSeq(path_lines', old + 1, Len(path_lines')))]_vars

\* two pieces with stripes each: the second path starts away from the end
\* of the first
C8_Witness ==
    /\ pc = "gen_returned"
    /\ Len(convex_pieces) >= 2
    /\ Len(path_lines) >= 2
    /\ ~ Connected(path_lines)

(***************************************************************************)
(* C9: for every convex polygon, in either winding, and every height y     *)
(* with yMin < y < yMax, the half-open edge test of compute_lawnmower      *)
(* selects exactly 2 edges, also when y is the height of a vertex or the   *)
(* polygon has horizontal edges.                                           *)
(***************************************************************************)
C9_TwoCrossings ==
    PiecePlanned
        => \A k \in 1..piece_idx :
              IsConvexPiece(convex_pieces[k])
                  => \A poly \in {convex_pieces[k], Reverse(convex_pieces[k])} :
                        \A y \in (MinY(poly) + 1)..(MaxY(poly) - 1) :
                           Len(scan_xs(poly, y)) = 2

\* a planned piece with a horizontal edge and a vertex strictly between
\* its lowest and its highest height
C9_Witness ==
    /\ PiecePlanned
    /\ IsConvexPiece(LastPlanned)
    /\ \E i \in 1..Len(LastPlanned) :
          LastPlanned[i].y = NextOf(LastPlanned, i).y
    /\ \E i \in 1..Len(LastPlanned) :
          /\ MinY(LastPlanned) < LastPlanned[i].y
          /\ LastPlanned[i].y < MaxY(LastPlanned)

(***************************************************************************)
(* C10: ear_clip never signals an error.  With fewer than 3 vertices it    *)
(* returns the empty list; when a full scan finds no ear the call stops    *)
(* and returns exactly the triangles emitted so far, fewer than n - 2; a   *)
(* final triangle is emitted only when exactly 3 vertices remain.  What is *)
(* returned is always a list of vertex triples of the input.               *)
(***************************************************************************)
IsTriangleOf(t, vs) ==
    /\ Len(t) = 3
    /\ \A k \in 1..3 : \E i \in 1..Len(vs) : t[k] = vs[i]

C10_NeverFails ==
    [][/\ (pc' = "ear_returned" /\ Len(vertices) < 3) => result' = <<>>
       /\ pc = "ear_break"
            => /\ pc' = "ear_returned"
               /\ result' = result
               /\ Len(result') < Len(vertices) - 2
       /\ pc' = "ear_returned"
            => /\ \/ result' = result
                  \/ Len(V) = 3 /\ result' = Append(result, <<V[1], V[2], V[3]>>)
               /\ \A k \in 1..Len(result') : IsTriangleOf(result'[k], vertices)]_vars

\* a scan found no ear after at least one triangle had been emitted
C10_Witness ==
    /\ pc = "ear_returned"
    /\ Len(V) > 3
    /\ Len(result) >= 1
    /\ Len(result) < Len(vertices) - 2

(***************************************************************************)
(* C11: merge_convex terminates on every input list.  Each pass performs   *)
(* at most one merge and a merging pass reduces the number of polygons by  *)
(* exactly one, so at most len(input) passes run, and never more than 100. *)
(* On return either the last pass scanned every pair and merged none (no   *)
(* pair of the returned list can be merged) or exactly 100 passes have     *)
(* run; for the empty list no pass runs at all.                            *)
(***************************************************************************)
C11_PassBound ==
    pc \in {"merge_while", "merge_returned"}
        => /\ iteration <= 100
           /\ iteration <= Len(MergeArg)

C11_OnePass ==
    (pc = "merge_while" /\ pc' = "merge_while")
        => /\ iteration' = iteration + 1
           /\ \/ merged' /\ Len(polygons') = Len(polygons) - 1
              \/ ~ merged' /\ polygons' = polygons

C11_OnReturn ==
    pc' = "merge_returned"
        => \/ MergeArg = <<>> /\ polygons' = <<>>
           \/ ~ merged' /\ FirstPair(polygons') = <<0, 0>>
           \/ iteration' = 100

C11_Terminates ==
    /\ [] C11_PassBound
    /\ [][C11_OnePass /\ C11_OnReturn]_vars
    /\ (pc = "merge_call") ~> (pc = "merge_returned")

\* a call that returned because it ran into the limit of 100 passes, its
\* last pass having merged
C11_Witness ==
    /\ pc = "merge_returned"
    /\ merged
    /\ iteration = 100
    /\ Len(MergeArg) > 100

(***************************************************************************)
(* C12: in each pass of merge_convex the pair that is merged is the first  *)
(* pair (i, j), i < j, in lexicographic index order that shares exactly    *)
(* two vertices, has those two vertices consecutive in both vertex cycles, *)
(* and whose angularly sorted vertex union is strictly convex; the two     *)
(* polygons are removed, the merged polygon is appended at the end of the  *)
(* list, and all other polygons keep their relative order.  A pass that    *)
(* finds no such pair leaves the list as it is.                            *)
(***************************************************************************)
ConsecutiveIn(P, S) ==
    \E k \in 1..Len(P) : {P[k], NextOf(P, k)} = S

Mergeable(P, Q) ==
    LET S == PointSet(P) \cap PointSet(Q)
    IN  /\ Cardinality(S) = 2
        /\ ConsecutiveIn(P, S)
        /\ ConsecutiveIn(Q, S)
        /\ StrictlyConvex(merge_candidate(P, Q))

MergeablePairs(polys) ==
    { pr \in (1..Len(polys)) \X (1..Len(polys)) :
        pr[1] < pr[2] /\ Mergeable(polys[pr[1]], polys[pr[2]]) }

LexFirst(pairs) ==
    CHOOSE pr \in pairs :
        \A q \in pairs : pr[1] < q[1] \/ (pr[1] = q[1] /\ pr[2] <= q[2])

\* the list without its elements i and j, i < j
WithoutTwo(polys, i, j) ==
    [k \in 1..(Len(polys) - 2) |->
        polys[IF k < i THEN k ELSE IF k + 1 < j THEN k + 1 ELSE k + 2]]

C12_FirstPairMerged ==
    [][(pc = "merge_while" /\ pc' = "merge_while")
          => LET pairs == MergeablePairs(polygons)
             IN  IF pairs = {}
                 THEN ~ merged' /\ polygons' = polygons
                 ELSE LET pr == LexFirst(pairs)
                      IN  /\ merged'
                          /\ polygons' =
                                Append(WithoutTwo(polygons, pr[1], pr[2]),
                                       merge_candidate(polygons[pr[1]],
                                                       polygons[pr[2]]))]_vars

\* merges have been made, the merged piece stands last, and the list still
\* holds several pairs that can be merged, the first of them not (1, 2)
C12_Witness ==
    /\ pc = "merge_while"
    /\ merged
    /\ iteration >= 1
    /\ Len(polygons) >= 3
    /\ Len(polygons[Len(polygons)]) >= 4
    /\ Cardinality(MergeablePairs(polygons)) >= 2
    /\ LexFirst(MergeablePairs(polygons)) # <<1, 2>>

(***************************************************************************)
(* C13: changing the colour scheme only repaints.  After update_colors has *)
(* run in a state where convex_pieces is not empty, convex_pieces holds    *)
(* the same pieces as before, last_closed and current are unchanged, and a *)
(* following generate_paths still finds pieces to plan.                    *)
(***************************************************************************)
C13_ColorsOnlyRepaint ==
    [][(pc' = "colors_updated" /\ convex_pieces # <<>>)
          => /\ convex_pieces' = convex_pieces
             /\ last_closed' = last_closed
             /\ current' = current]_vars

====
